---- MODULE Spec2Model ----
(***************************************************************************)
(* The usage-gated AI-action pipeline of Quick-AI's server:                *)
(* server/controllers/aiController.js (six async request handlers) behind  *)
(* the middleware chain of server/server.js.                               *)
(*                                                                         *)
(* Every await of a handler is a suspend point, so a handler is modelled   *)
(* as its synchronous entry (up to the first await) followed by one step   *)
(* per awaited promise, which either resolves or rejects.  Requests of     *)
(* several callers interleave at these points.                             *)
(***************************************************************************)
EXTENDS Integers, Sequences, FiniteSets, TLC

\* ------------------------------------------------------------------ bounds
\* Request objects that may be in flight together in Spec.
MaxReq == 2
\* Requests served one after another in SpecSeq.
MaxSeqReq == 6
\* How far below the free limit the stored counter may start in Spec (it may
\* also start at the limit or one above it).
UsageSlack == 2
\* Overlapping count-limited requests of one free caller in SpecRace.
MaxRaceReq == 3
\* How far below the free limit that caller's counter may stand when SpecRace starts.
RaceSlack == 2
\* Requests passing through the middleware chain in SpecChain.
MaxChainReq == 2

\* --------------------------------------------------------------- constants
\* aiController.js:22 and :65, "free_usage >= 5"
FreeLimit == 5
\* aiController.js:207, "5* 1024 * 1024"
MaxResumeSize == 5 * 1024 * 1024

Users == {"u1", "u2"}
\* The subscription tier the identity provider reports for each user.
PlanOf == [u \in Users |-> IF u = "u2" THEN "premium" ELSE "free"]

CountLimited == {"generateArticle", "generateBlogTitle"}
PremiumOnly == {"generateImage", "removeImageBackground", "removeImageObject", "resumeReview"}
Handlers == CountLimited \cup PremiumOnly

LimitMsg == "Limit reached. Upgrade to Continue."
PremiumMsg == "This feature is only available for premium subscriptions."
NoImageMsg == "No image file uploaded."
ResumeSizeMsg == "Resume file size exceeds 5MB limit."
\* The TypeError of reading .size of undefined (aiController.js:207 with no upload).
UndefinedSizeMsg == "Cannot read properties of undefined (reading 'size')"

\* ------------------------------------------------------------------ inputs
\* req.file as multer leaves it: absent, or an upload of some size.
NoFile == [present |-> FALSE, size |-> 0]
Upload(n) == [present |-> TRUE, size |-> n]
Files == {NoFile, Upload(MaxResumeSize), Upload(MaxResumeSize + 1)}

\* The publish member of a JSON body: a boolean, null, or left out.
Publishes == {"true", "false", "null", "undefined"}

NoBody == [prompt |-> "undefined", length |-> 0, publish |-> "undefined", object |-> "undefined"]

\* The payloads a client sends to each route (spec.md section 6).
Payloads(h) ==
    CASE h = "generateArticle" ->
           {[body |-> [NoBody EXCEPT !.prompt = "p1", !.length = 800], file |-> NoFile]}
      [] h = "generateBlogTitle" ->
           {[body |-> [NoBody EXCEPT !.prompt = "p1"], file |-> NoFile]}
      [] h = "generateImage" ->
           {[body |-> [NoBody EXCEPT !.prompt = "p1", !.publish = p], file |-> NoFile] : p \in Publishes}
      [] h = "removeImageBackground" ->
           {[body |-> NoBody, file |-> f] : f \in Files}
      [] h = "removeImageObject" ->
           {[body |-> [NoBody EXCEPT !.object = "o1"], file |-> f] : f \in Files}
      [] h = "resumeReview" ->
           {[body |-> NoBody, file |-> f] : f \in Files}

\* What the gateways answer.
Completions == {"text1"}
SecureUrls == {"url1"}
PublicIds == {"id1"}

\* ------------------------------------------------------------------- state
VARIABLES
    usage,      \* identity provider: privateMetadata.free_usage of each user
    creations,  \* the creations table, in insertion order
    req         \* the request objects: context, payload, position, effects so far

vars == <<usage, creations, req>>

Idle ==
    [pc |-> "idle", handler |-> "none", userId |-> "none", plan |-> "none",
     free_usage |-> 0, body |-> NoBody, file |-> NoFile, content |-> "none",
     calls |-> <<>>, fileRead |-> FALSE, inserts |-> 0, rowId |-> 0,
     updates |-> 0, responses |-> <<>>]

Reqs == DOMAIN req

\* ----------------------------------------------------------------- helpers
\* The two JSON envelopes.
Success(c) == [success |-> TRUE, content |-> c]
Failure(m) == [success |-> FALSE, message |-> m]

\* res.json(env): one more response on the wire.
Json(q, env) == [q EXCEPT !.responses = Append(@, env)]

\* The handler's async function settles; the request object is finished.
Return(q) == [q EXCEPT !.pc = "done"]

\* Faulty variant: the catch block logs the error and sends nothing.
Catch_Silent(q, msg) == Return(q)

\* catch (error) { console.log(error.message); res.json({success:false, message}) }
Catch(q, msg) == Return(Json(q, Failure(msg)))

\* A delegated call is issued and the handler suspends on its promise.
Call(q, gateway, pc) == [q EXCEPT !.calls = Append(@, gateway), !.pc = pc]

\* Faulty variant: the quota test uses > in place of >=.
QuotaExceeded_StrictlyOver(plan, free_usage) == plan # "premium" /\ free_usage > FreeLimit

\* Faulty variant: the quota test forgets the plan.
QuotaExceeded_IgnoresPlan(plan, free_usage) == free_usage >= FreeLimit

\* plan !== 'premium' && free_usage >= 5
QuotaExceeded(plan, free_usage) == plan # "premium" /\ free_usage >= FreeLimit

\* Faulty variant: the plan test names a tier no caller has.
PlanRequired_WrongTier(plan) == plan = "basic"

\* plan !== 'premium'
PlanRequired(plan) == plan # "premium"

\* Faulty variant: the handlers never test for the upload.
FileMissing_Never(file) == FALSE

\* !req.file
FileMissing(file) == ~file.present

\* Faulty variant: the size test uses >= in place of >.
ResumeTooLarge_Inclusive(file) == file.size >= MaxResumeSize

\* resume.size > 5 * 1024 * 1024
ResumeTooLarge(file) == file.size > MaxResumeSize

\* Faulty variant: publish is passed to the INSERT without the ?? false default.
Nullish_NoDefault(v, d) == v

\* publish ?? false
Nullish(v, d) == IF v \in {"null", "undefined"} THEN d ELSE v

\* cloudinary.url(public_id, {transformation: [{effect: `gen_remove:${object}`}]}),
\* built locally: no request is sent.
CloudinaryUrl(public_id, object) == "image/e_gen_remove:" \o object \o "/" \o public_id

\* Faulty variant: the success response is sent when the INSERT is issued,
\* before it has committed.
IssueInsert_RespondFirst(q) ==
    [q EXCEPT !.inserts = @ + 1, !.pc = "awaitInsert",
              !.responses = Append(@, Success(q.content))]

\* await sql`INSERT INTO creations ...` is issued and the handler suspends.
IssueInsert(q) == [q EXCEPT !.inserts = @ + 1, !.pc = "awaitInsert"]

\* await clerkClient.users.updateUserMetadata(...) is issued and the handler suspends.
IssueUpdate(q) == [q EXCEPT !.updates = @ + 1, !.pc = "awaitUpdate"]

\* Faulty variant: the INSERT statement of generateArticle copied unchanged
\* into every handler.
InsertRow_ArticleForAll(q, id) ==
    [id |-> id, user_id |-> q.userId, prompt |-> q.body.prompt,
     content |-> q.content, type |-> "article", publish |-> "false"]

\* The row each handler's INSERT statement writes; publish is the column's
\* default (false) where the statement does not name it.
InsertRow(q, id) ==
    CASE q.handler = "generateArticle" ->
           [id |-> id, user_id |-> q.userId, prompt |-> q.body.prompt,
            content |-> q.content, type |-> "article", publish |-> "false"]
      [] q.handler = "generateBlogTitle" ->
           [id |-> id, user_id |-> q.userId, prompt |-> q.body.prompt,
            content |-> q.content, type |-> "blog-title", publish |-> "false"]
      [] q.handler = "generateImage" ->
           [id |-> id, user_id |-> q.userId, prompt |-> q.body.prompt,
            content |-> q.content, type |-> "image",
            publish |-> Nullish(q.body.publish, "false")]
      [] q.handler = "removeImageBackground" ->
           [id |-> id, user_id |-> q.userId, prompt |-> "Remove background from image",
            content |-> q.content, type |-> "image", publish |-> "false"]
      [] q.handler = "removeImageObject" ->
           [id |-> id, user_id |-> q.userId,
            prompt |-> "Removed " \o q.body.object \o " from image",
            content |-> q.content, type |-> "image", publish |-> "false"]
      [] q.handler = "resumeReview" ->
           [id |-> id, user_id |-> q.userId, prompt |-> "Review the uploaded resume",
            content |-> q.content, type |-> "resume-review", publish |-> "false"]

\* Faulty variant: every handler goes on to the counter update.
AfterInsert_AlwaysUpdate(q) == IssueUpdate(q)

\* Faulty variant: the plan test before the counter update is inverted.
AfterInsert_Inverted(q) ==
    IF q.handler \in CountLimited /\ q.plan = "premium"
    THEN IssueUpdate(q)
    ELSE Return(Json(q, Success(q.content)))

\* What follows the INSERT in each handler: the counter update of the two
\* count-limited handlers for a non-premium caller, else the success response.
AfterInsert(q) ==
    IF q.handler \in CountLimited /\ q.plan # "premium"
    THEN IssueUpdate(q)
    ELSE Return(Json(q, Success(q.content)))

\* Faulty variant: the update writes the count back without the + 1.
UpdatedUsage_NoIncrement(q) == q.free_usage

\* Faulty variant: the update runs ahead by one more than the request used.
UpdatedUsage_TwoAhead(q) == q.free_usage + 2

\* free_usage: free_usage + 1, computed from the count the request was given.
UpdatedUsage(q) == q.free_usage + 1

At(r, pc, hs) == req[r].pc = pc /\ req[r].handler \in hs
Set(r, q) == req' = [req EXCEPT ![r] = q]

\* -------------------------------------------------------------- middleware
\* The upstream middleware (requireAuth and the per-route context): a new
\* request of an authenticated caller gets the caller's plan and the stored
\* free-usage count attached.  Request objects are numbered in arrival order.
auth(r, u, h, p) ==
    /\ req[r].pc = "idle"
    /\ \A s \in Reqs : s < r => req[s].pc # "idle"
    /\ Set(r, [Idle EXCEPT !.pc = "handler", !.handler = h, !.userId = u,
                           !.plan = PlanOf[u], !.free_usage = usage[u],
                           !.body = p.body, !.file = p.file])
    /\ UNCHANGED <<usage, creations>>

\* ---------------------------------------------------------------- handlers
\* Each handler's synchronous entry, up to its first await.  req.auth() yields
\* the identity clerkMiddleware attached (server.js:13), so it does not throw.
\* Faulty variant: a per-caller guard that turns the request away while
\* another request of the same caller is running.
generateArticle_Guarded(r) ==
    /\ At(r, "handler", {"generateArticle"})
    /\ LET q == req[r]
           busy == \E s \in Reqs \ {r} :
                       /\ req[s].userId = q.userId
                       /\ req[s].pc \notin {"idle", "handler", "done"}
       IN Set(r, IF QuotaExceeded(q.plan, q.free_usage) \/ busy
                 THEN Return(Json(q, Failure(LimitMsg)))
                 ELSE Call(q, "completion", "awaitCompletion"))
    /\ UNCHANGED <<usage, creations>>

generateArticle(r) ==
    /\ At(r, "handler", {"generateArticle"})
    /\ LET q == req[r] IN
       Set(r, IF QuotaExceeded(q.plan, q.free_usage)
                   THEN Return(Json(q, Failure(LimitMsg)))
                   ELSE Call(q, "completion", "awaitCompletion"))
    /\ UNCHANGED <<usage, creations>>

generateBlogTitle(r) ==
    /\ At(r, "handler", {"generateBlogTitle"})
    /\ LET q == req[r] IN
       Set(r, IF QuotaExceeded(q.plan, q.free_usage)
                   THEN Return(Json(q, Failure(LimitMsg)))
                   ELSE Call(q, "completion", "awaitCompletion"))
    /\ UNCHANGED <<usage, creations>>

generateImage(r) ==
    /\ At(r, "handler", {"generateImage"})
    /\ LET q == req[r] IN
       Set(r, IF PlanRequired(q.plan)
                   THEN Return(Json(q, Failure(PremiumMsg)))
                   ELSE Call(q, "render", "awaitRender"))
    /\ UNCHANGED <<usage, creations>>

\* Faulty variant: the upload is checked before the plan.
removeImageBackground_FileFirst(r) ==
    /\ At(r, "handler", {"removeImageBackground"})
    /\ LET q == req[r] IN
       Set(r, IF FileMissing(q.file)
                   THEN Return(Json(q, Failure(NoImageMsg)))
                   ELSE IF PlanRequired(q.plan)
                        THEN Return(Json(q, Failure(PremiumMsg)))
                        ELSE Call(q, "upload", "awaitUpload"))
    /\ UNCHANGED <<usage, creations>>

removeImageBackground(r) ==
    /\ At(r, "handler", {"removeImageBackground"})
    /\ LET q == req[r] IN
       Set(r, IF PlanRequired(q.plan)
                   THEN Return(Json(q, Failure(PremiumMsg)))
                   ELSE IF FileMissing(q.file)
                        THEN Return(Json(q, Failure(NoImageMsg)))
                        ELSE Call(q, "upload", "awaitUpload"))
    /\ UNCHANGED <<usage, creations>>

removeImageObject(r) ==
    /\ At(r, "handler", {"removeImageObject"})
    /\ LET q == req[r] IN
       Set(r, IF PlanRequired(q.plan)
                   THEN Return(Json(q, Failure(PremiumMsg)))
                   ELSE IF FileMissing(q.file)
                        THEN Return(Json(q, Failure(NoImageMsg)))
                        ELSE Call(q, "upload", "awaitUpload"))
    /\ UNCHANGED <<usage, creations>>

\* resume.size of an absent upload throws and is caught; fs.readFileSync runs
\* in the same synchronous stretch and may throw as well (readOk).
resumeReview(r, readOk) ==
    /\ At(r, "handler", {"resumeReview"})
    /\ LET q == req[r] IN
       Set(r, IF PlanRequired(q.plan)
                   THEN Return(Json(q, Failure(PremiumMsg)))
                   ELSE IF ~q.file.present
                        THEN Catch(q, UndefinedSizeMsg)
                        ELSE IF ResumeTooLarge(q.file)
                             THEN Return(Json(q, Failure(ResumeSizeMsg)))
                             ELSE IF ~readOk
                                  THEN Catch([q EXCEPT !.fileRead = TRUE], "file read failed")
                                  ELSE Call([q EXCEPT !.fileRead = TRUE], "pdf", "awaitPdf"))
    /\ UNCHANGED <<usage, creations>>

\* ----------------------------------------------------------- continuations
\* await AI.chat.completions.create(...) resolves: content is taken from the
\* completion and the INSERT is issued (article, blog title, resume review).
CompletionResolves(r, c) ==
    /\ At(r, "awaitCompletion", {"generateArticle", "generateBlogTitle", "resumeReview"})
    /\ Set(r, IssueInsert([req[r] EXCEPT !.content = c]))
    /\ UNCHANGED <<usage, creations>>

\* Faulty variant: a rejected completion call is issued again.
CompletionRejects_Retry(r) ==
    /\ At(r, "awaitCompletion", {"generateArticle", "generateBlogTitle", "resumeReview"})
    /\ Set(r, Call(req[r], "completion", "awaitCompletion"))
    /\ UNCHANGED <<usage, creations>>

CompletionRejects(r) ==
    /\ At(r, "awaitCompletion", {"generateArticle", "generateBlogTitle", "resumeReview"})
    /\ Set(r, Catch(req[r], "completion failed"))
    /\ UNCHANGED <<usage, creations>>

\* await axios.get(image) resolves: the bytes are uploaded to the asset host.
RenderResolves(r) ==
    /\ At(r, "awaitRender", {"generateImage"})
    /\ Set(r, Call(req[r], "upload", "awaitUpload"))
    /\ UNCHANGED <<usage, creations>>

RenderRejects(r) ==
    /\ At(r, "awaitRender", {"generateImage"})
    /\ Set(r, Catch(req[r], "render failed"))
    /\ UNCHANGED <<usage, creations>>

\* await cloudinary.uploader.upload(...) resolves with {secure_url, public_id}:
\* content is secure_url, or for removeImageObject the transformed URL built
\* from public_id; the INSERT is issued.
UploadResolves(r, secure_url, public_id) ==
    /\ At(r, "awaitUpload", {"generateImage", "removeImageBackground", "removeImageObject"})
    /\ LET q == req[r] IN
       Set(r, IssueInsert([q EXCEPT !.content =
                  IF q.handler = "removeImageObject"
                  THEN CloudinaryUrl(public_id, q.body.object)
                  ELSE secure_url]))
    /\ UNCHANGED <<usage, creations>>

\* Faulty variant: a failed upload is swallowed and the INSERT is issued anyway.
UploadRejects_Swallowed(r) ==
    /\ At(r, "awaitUpload", {"generateImage", "removeImageBackground", "removeImageObject"})
    /\ Set(r, IssueInsert(req[r]))
    /\ UNCHANGED <<usage, creations>>

UploadRejects(r) ==
    /\ At(r, "awaitUpload", {"generateImage", "removeImageBackground", "removeImageObject"})
    /\ Set(r, Catch(req[r], "upload failed"))
    /\ UNCHANGED <<usage, creations>>

\* await pdf(dataBuffer) resolves: the review prompt goes to the completion API.
PdfResolves(r) ==
    /\ At(r, "awaitPdf", {"resumeReview"})
    /\ Set(r, Call(req[r], "completion", "awaitCompletion"))
    /\ UNCHANGED <<usage, creations>>

PdfRejects(r) ==
    /\ At(r, "awaitPdf", {"resumeReview"})
    /\ Set(r, Catch(req[r], "pdf extraction failed"))
    /\ UNCHANGED <<usage, creations>>

\* Faulty variant: an INSERT that skips a row the table already holds (same caller,
\* prompt, content, type and publish) and goes on with the row found.
InsertResolves_Dedup(r) ==
    /\ At(r, "awaitInsert", Handlers)
    /\ LET row == InsertRow(req[r], 0)
           dup == {i \in 1..Len(creations) : [creations[i] EXCEPT !.id = 0] = row}
           id == Len(creations) + 1
       IN IF dup = {}
          THEN /\ creations' = Append(creations, InsertRow(req[r], id))
               /\ Set(r, AfterInsert([req[r] EXCEPT !.rowId = id]))
          ELSE /\ creations' = creations
               /\ Set(r, AfterInsert([req[r] EXCEPT !.rowId = CHOOSE i \in dup : TRUE]))
    /\ UNCHANGED usage

\* Faulty variant: an upsert that overwrites the caller's earlier row of the
\* same type in place of adding a row.
InsertResolves_Upsert(r) ==
    /\ At(r, "awaitInsert", Handlers)
    /\ LET row == InsertRow(req[r], 0)
           old == {i \in 1..Len(creations) :
                      creations[i].user_id = row.user_id /\ creations[i].type = row.type}
           id == Len(creations) + 1
       IN IF old = {}
          THEN /\ creations' = Append(creations, InsertRow(req[r], id))
               /\ Set(r, AfterInsert([req[r] EXCEPT !.rowId = id]))
          ELSE LET i == CHOOSE j \in old : TRUE IN
               /\ creations' = [creations EXCEPT ![i] = InsertRow(req[r], i)]
               /\ Set(r, AfterInsert([req[r] EXCEPT !.rowId = i]))
    /\ UNCHANGED usage

\* The INSERT commits: the row is in the table, and the handler goes on.
InsertResolves(r) ==
    /\ At(r, "awaitInsert", Handlers)
    /\ LET id == Len(creations) + 1 IN
       /\ creations' = Append(creations, InsertRow(req[r], id))
       /\ Set(r, AfterInsert([req[r] EXCEPT !.rowId = id]))
    /\ UNCHANGED usage

\* Faulty variant: a failed INSERT is swallowed and the handler goes on.
InsertRejects_Swallowed(r) ==
    /\ At(r, "awaitInsert", Handlers)
    /\ Set(r, AfterInsert(req[r]))
    /\ UNCHANGED <<usage, creations>>

InsertRejects(r) ==
    /\ At(r, "awaitInsert", Handlers)
    /\ Set(r, Catch(req[r], "insert failed"))
    /\ UNCHANGED <<usage, creations>>

\* Faulty variant: the update increments the stored value atomically.
UpdateResolves_Increment(r) ==
    /\ At(r, "awaitUpdate", CountLimited)
    /\ usage' = [usage EXCEPT ![req[r].userId] = @ + 1]
    /\ Set(r, Return(Json(req[r], Success(req[r].content))))
    /\ UNCHANGED creations

\* Faulty variant: the update is not keyed by the caller and lands on every user.
UpdateResolves_AllUsers(r) ==
    /\ At(r, "awaitUpdate", CountLimited)
    /\ usage' = [u \in Users |-> UpdatedUsage(req[r])]
    /\ Set(r, Return(Json(req[r], Success(req[r].content))))
    /\ UNCHANGED creations

\* updateUserMetadata resolves: the caller's stored count is overwritten, and
\* the success response is sent.
UpdateResolves(r) ==
    /\ At(r, "awaitUpdate", CountLimited)
    /\ usage' = [usage EXCEPT ![req[r].userId] = UpdatedUsage(req[r])]
    /\ Set(r, Return(Json(req[r], Success(req[r].content))))
    /\ UNCHANGED creations

\* Faulty variant: a failed update is compensated by deleting the row again.
UpdateRejects_Rollback(r) ==
    /\ At(r, "awaitUpdate", CountLimited)
    /\ Set(r, Catch(req[r], "metadata update failed"))
    /\ creations' = [i \in 1..(Len(creations) - 1) |->
                        IF i < req[r].rowId THEN creations[i] ELSE creations[i + 1]]
    /\ UNCHANGED usage

UpdateRejects(r) ==
    /\ At(r, "awaitUpdate", CountLimited)
    /\ Set(r, Catch(req[r], "metadata update failed"))
    /\ UNCHANGED <<usage, creations>>

\* ---------------------------------------------------------- specifications
InitUsages == (FreeLimit - UsageSlack)..(FreeLimit + 1)

Init ==
    /\ usage \in [Users -> InitUsages]
    /\ creations = <<>>
    /\ req = [r \in 1..MaxReq |-> Idle]

Next ==
    \/ \E r \in Reqs, u \in Users, h \in Handlers : \E p \in Payloads(h) : auth(r, u, h, p)
    \/ \E r \in Reqs : generateArticle(r)
    \/ \E r \in Reqs : generateBlogTitle(r)
    \/ \E r \in Reqs : generateImage(r)
    \/ \E r \in Reqs : removeImageBackground(r)
    \/ \E r \in Reqs : removeImageObject(r)
    \/ \E r \in Reqs, readOk \in BOOLEAN : resumeReview(r, readOk)
    \/ \E r \in Reqs, c \in Completions : CompletionResolves(r, c)
    \/ \E r \in Reqs : CompletionRejects(r)
    \/ \E r \in Reqs : RenderResolves(r)
    \/ \E r \in Reqs : RenderRejects(r)
    \/ \E r \in Reqs, s \in SecureUrls, i \in PublicIds : UploadResolves(r, s, i)
    \/ \E r \in Reqs : UploadRejects(r)
    \/ \E r \in Reqs : PdfResolves(r)
    \/ \E r \in Reqs : PdfRejects(r)
    \/ \E r \in Reqs : InsertResolves(r)
    \/ \E r \in Reqs : InsertRejects(r)
    \/ \E r \in Reqs : UpdateResolves(r)
    \/ \E r \in Reqs : UpdateRejects(r)

Spec == Init /\ [][Next]_vars

\* Requests served one after another (a request arrives only when no other
\* is in flight), every delegated call, insert and update succeeding, all
\* stored counters starting at 0.
InitSeq ==
    /\ usage = [u \in Users |-> 0]
    /\ creations = <<>>
    /\ req = [r \in 1..MaxSeqReq |-> Idle]

NoneInFlight == \A s \in Reqs : req[s].pc \in {"idle", "done"}

NextSeq ==
    \/ \E r \in Reqs, u \in Users, h \in CountLimited : \E p \in Payloads(h) :
           NoneInFlight /\ auth(r, u, h, p)
    \/ \E r \in Reqs : generateArticle(r)
    \/ \E r \in Reqs : generateBlogTitle(r)
    \/ \E r \in Reqs, c \in Completions : CompletionResolves(r, c)
    \/ \E r \in Reqs : InsertResolves(r)
    \/ \E r \in Reqs : UpdateResolves(r)

SpecSeq == InitSeq /\ [][NextSeq]_vars

\* Overlapping article and title requests of one free caller, every awaited
\* step free to fail.  The caller starts with n counted requests behind it,
\* served one after another: the stored counter at n and n article rows.
RaceCaller == CHOOSE u \in Users : PlanOf[u] # "premium"

PriorRows(u, n) ==
    [i \in 1..n |->
        InsertRow([Idle EXCEPT !.handler = "generateArticle", !.userId = u,
                               !.body = [NoBody EXCEPT !.prompt = "p1", !.length = 800],
                               !.content = "text1"], i)]

InitRace ==
    \E n \in (FreeLimit - RaceSlack)..FreeLimit :
        /\ usage = [u \in Users |-> IF u = RaceCaller THEN n ELSE 0]
        /\ creations = PriorRows(RaceCaller, n)
        /\ req = [r \in 1..MaxRaceReq |-> Idle]

NextRace ==
    \/ \E r \in Reqs, h \in CountLimited : \E p \in Payloads(h) : auth(r, RaceCaller, h, p)
    \/ \E r \in Reqs : generateArticle(r)
    \/ \E r \in Reqs : generateBlogTitle(r)
    \/ \E r \in Reqs, c \in Completions : CompletionResolves(r, c)
    \/ \E r \in Reqs : CompletionRejects(r)
    \/ \E r \in Reqs : InsertResolves(r)
    \/ \E r \in Reqs : InsertRejects(r)
    \/ \E r \in Reqs : UpdateResolves(r)
    \/ \E r \in Reqs : UpdateRejects(r)

SpecRace == InitRace /\ [][NextRace]_vars

\* The middleware chain of server.js, in the order of its app.use / app.get
\* lines.  A request carries a method, a path and the session it was sent
\* with; each middleware either ends the request or passes it on.
LiveMsg == "Server is LIVE..."

Methods == {"GET", "POST"}

\* The routes of the /api/ai router (spec.md section 6).
Routes ==
    [p \in {"/api/ai/generate-article", "/api/ai/generate-blog-title",
            "/api/ai/generate-image", "/api/ai/remove-image-background",
            "/api/ai/remove-image-object", "/api/ai/resume-review"} |->
        CASE p = "/api/ai/generate-article" -> "generateArticle"
          [] p = "/api/ai/generate-blog-title" -> "generateBlogTitle"
          [] p = "/api/ai/generate-image" -> "generateImage"
          [] p = "/api/ai/remove-image-background" -> "removeImageBackground"
          [] p = "/api/ai/remove-image-object" -> "removeImageObject"
          [] p = "/api/ai/resume-review" -> "resumeReview"]

Paths == {"/"} \cup DOMAIN Routes

\* Who a request's session token belongs to; "none" without a session.
Sessions == Users \cup {"none"}

\* What a client sends along with a request to this path: for a route, its
\* payload without a file or with a file of admissible size.
Sent(path) ==
    IF path \in DOMAIN Routes
    THEN {p \in Payloads(Routes[path]) :
             /\ ~ResumeTooLarge(p.file)
             /\ p.body.publish \in {"true", "undefined"}}
    ELSE {[body |-> NoBody, file |-> NoFile]}

Incoming ==
    Idle @@ [method |-> "none", path |-> "none", session |-> "none",
             identity |-> "none", sent |-> [body |-> NoBody, file |-> NoFile]]

\* A response sent by the chain itself, not by a handler.
Send(q, response) == [q EXCEPT !.responses = Append(@, response), !.pc = "done"]

\* app.listen: a request arrives and enters the chain.
listen(r, method, path, session, p) ==
    /\ req[r].pc = "idle"
    /\ \A s \in Reqs : s < r => req[s].pc # "idle"
    /\ Set(r, [req[r] EXCEPT !.pc = "cors", !.method = method, !.path = path,
                             !.session = session, !.sent = p])
    /\ UNCHANGED <<usage, creations>>

\* app.use(cors()): headers only, the request goes on.
cors(r) ==
    /\ req[r].pc = "cors"
    /\ Set(r, [req[r] EXCEPT !.pc = "json"])
    /\ UNCHANGED <<usage, creations>>

\* app.use(express.json()): req.body is the parsed body.
express_json(r) ==
    /\ req[r].pc = "json"
    /\ Set(r, [req[r] EXCEPT !.pc = "clerk", !.body = req[r].sent.body])
    /\ UNCHANGED <<usage, creations>>

\* app.use(clerkMiddleware()): the identity of the session is attached to the
\* request; a request without a session goes on without identity.
clerkMiddleware(r) ==
    /\ req[r].pc = "clerk"
    /\ Set(r, [req[r] EXCEPT !.pc = "root", !.identity = req[r].session])
    /\ UNCHANGED <<usage, creations>>

\* app.get('/', (req, res) => res.send('Server is LIVE...'))
app_get_root(r) ==
    /\ req[r].pc = "root"
    /\ Set(r, IF req[r].method = "GET" /\ req[r].path = "/"
              THEN Send(req[r], [body |-> LiveMsg])
              ELSE [req[r] EXCEPT !.pc = "requireAuth"])
    /\ UNCHANGED <<usage, creations>>

\* Faulty variant: the requirement lets every request through.
requireAuth_Open(r) ==
    /\ req[r].pc = "requireAuth"
    /\ Set(r, [req[r] EXCEPT !.pc = "router"])
    /\ UNCHANGED <<usage, creations>>

\* app.use(requireAuth()): a request without identity ends here.
requireAuth(r) ==
    /\ req[r].pc = "requireAuth"
    /\ Set(r, IF req[r].identity = "none"
              THEN Send(req[r], [rejected |-> "requireAuth"])
              ELSE [req[r] EXCEPT !.pc = "router"])
    /\ UNCHANGED <<usage, creations>>

\* app.use('/api/ai', aiRouter): the route's own middleware attaches the
\* upload, the plan and the stored free-usage count, and the handler of the
\* route is entered; a request that matches no route ends unanswered by any
\* handler.
aiRouter(r) ==
    /\ req[r].pc = "router"
    /\ LET q == req[r]
           u == q.identity
       IN Set(r, IF q.method = "POST" /\ q.path \in DOMAIN Routes
                 THEN [q EXCEPT !.pc = "handler", !.handler = Routes[q.path],
                                !.userId = u,
                                !.plan = IF u \in Users THEN PlanOf[u] ELSE "free",
                                !.free_usage = IF u \in Users THEN usage[u] ELSE 0,
                                !.file = q.sent.file]
                 ELSE Send(q, [rejected |-> "no route"]))
    /\ UNCHANGED <<usage, creations>>

InitChain ==
    /\ usage = [u \in Users |-> 0]
    /\ creations = <<>>
    /\ req = [r \in 1..MaxChainReq |-> Incoming]

NextChain ==
    \/ \E r \in Reqs, m \in Methods, path \in Paths, s \in Sessions :
           \E p \in Sent(path) : listen(r, m, path, s, p)
    \/ \E r \in Reqs : cors(r)
    \/ \E r \in Reqs : express_json(r)
    \/ \E r \in Reqs : clerkMiddleware(r)
    \/ \E r \in Reqs : app_get_root(r)
    \/ \E r \in Reqs : requireAuth(r)
    \/ \E r \in Reqs : aiRouter(r)
    \/ \E r \in Reqs : generateArticle(r)
    \/ \E r \in Reqs : generateBlogTitle(r)
    \/ \E r \in Reqs : generateImage(r)
    \/ \E r \in Reqs : removeImageBackground(r)
    \/ \E r \in Reqs : removeImageObject(r)
    \/ \E r \in Reqs, readOk \in BOOLEAN : resumeReview(r, readOk)
    \/ \E r \in Reqs, c \in Completions : CompletionResolves(r, c)
    \/ \E r \in Reqs : CompletionRejects(r)
    \/ \E r \in Reqs : RenderResolves(r)
    \/ \E r \in Reqs : RenderRejects(r)
    \/ \E r \in Reqs, s \in SecureUrls, i \in PublicIds : UploadResolves(r, s, i)
    \/ \E r \in Reqs : UploadRejects(r)
    \/ \E r \in Reqs : PdfResolves(r)
    \/ \E r \in Reqs : PdfRejects(r)
    \/ \E r \in Reqs : InsertResolves(r)
    \/ \E r \in Reqs : InsertRejects(r)
    \/ \E r \in Reqs : UpdateResolves(r)
    \/ \E r \in Reqs : UpdateRejects(r)

SpecChain == InitChain /\ [][NextChain]_vars

\* ------------------------------------------------------------------ claims
\* The handler of request q has run its entry.
Handled(q) == q.pc \notin {"idle", "handler"}
\* The request is finished and was answered {success: true, ...}.
Succeeded(q) == q.pc = "done" /\ Len(q.responses) = 1 /\ q.responses[1].success
\* The request is finished and was answered with exactly this failure message.
FailedWith(q, m) == q.pc = "done" /\ q.responses = <<Failure(m)>>

\* C1: a non-premium caller whose free-usage count is >= 5 gets, from
\* generateArticle and generateBlogTitle, the single response {success: false,
\* "Limit reached. Upgrade to Continue."}; the request issues no completion
\* call, no insert and no counter update.
C1_LimitReached ==
    \A r \in Reqs :
        LET q == req[r] IN
        (Handled(q) /\ q.handler \in CountLimited /\ q.plan # "premium"
                    /\ q.free_usage >= FreeLimit)
        => /\ FailedWith(q, LimitMsg)
           /\ q.calls = <<>>
           /\ q.inserts = 0 /\ q.rowId = 0
           /\ q.updates = 0

\* A free caller past the limit has been turned away by each of the two handlers.
C1_Witness ==
    \E r, s \in Reqs :
        /\ req[r].handler = "generateArticle" /\ req[s].handler = "generateBlogTitle"
        /\ \A t \in {r, s} : /\ req[t].plan # "premium"
                             /\ req[t].free_usage >= FreeLimit
                             /\ FailedWith(req[t], LimitMsg)
        /\ req[s].free_usage > FreeLimit

\* C2: a non-premium caller gets, from each of the four premium-only handlers
\* and whatever the usage count and the upload, the single response
\* {success: false, plan-required message}; the request reads no file and
\* issues no delegated call and no insert.
C2_PlanRequired ==
    \A r \in Reqs :
        LET q == req[r] IN
        (Handled(q) /\ q.handler \in PremiumOnly /\ q.plan # "premium")
        => /\ FailedWith(q, PremiumMsg)
           /\ q.calls = <<>> /\ ~q.fileRead
           /\ q.inserts = 0 /\ q.rowId = 0

\* Free callers, one below and one at or past the limit, have been refused by
\* two different premium-only handlers.
C2_Witness ==
    \E r, s \in Reqs :
        /\ req[r].handler = "generateImage" /\ req[s].handler = "resumeReview"
        /\ req[s].file.present
        /\ \A t \in {r, s} : req[t].plan # "premium" /\ FailedWith(req[t], PremiumMsg)
        /\ usage[req[r].userId] # FreeLimit

\* The step in which request r, a count-limited action of a non-premium
\* caller, completes its counter update and is answered with success.
CountedSuccessStep(r) ==
    /\ req[r].handler \in CountLimited /\ req[r].plan # "premium"
    /\ req[r].pc = "awaitUpdate"
    /\ Succeeded(req'[r])

\* C3 as stated: a successful count-limited action of a non-premium caller
\* inserts exactly one row and raises the stored usage counter by exactly 1;
\* a premium caller's request never issues a counter update.
C3_AsStated ==
    /\ [][\A r \in Reqs :
            CountedSuccessStep(r)
            => /\ req'[r].inserts = 1 /\ req'[r].rowId \in 1..Len(creations')
               /\ usage'[req[r].userId] = usage[req[r].userId] + 1]_vars
    /\ [](\A r \in Reqs : req[r].plan = "premium" => req[r].updates = 0)

\* C3 (amended): a successful count-limited action of a non-premium caller
\* inserts exactly one row and issues exactly one counter update, which sets
\* the caller's stored counter to the count the request was given plus 1 (a
\* rise by exactly 1 when the stored counter still is the count the request
\* was given) and leaves every other user's counter alone; a premium caller's
\* request never issues a counter update.
C3_CounterUpdate ==
    /\ [][\A r \in Reqs :
            CountedSuccessStep(r)
            => /\ req'[r].inserts = 1 /\ req'[r].rowId \in 1..Len(creations')
               /\ req'[r].updates = 1
               /\ usage'[req[r].userId] = req[r].free_usage + 1
               /\ (usage[req[r].userId] = req[r].free_usage
                   => usage'[req[r].userId] = usage[req[r].userId] + 1)
               /\ \A v \in Users \ {req[r].userId} : usage'[v] = usage[v]]_vars
    /\ [](\A r \in Reqs :
            /\ req[r].plan = "premium" => req[r].updates = 0 /\ req[r].pc # "awaitUpdate"
            /\ (req[r].handler \in CountLimited /\ req[r].plan # "premium" /\ Succeeded(req[r]))
               => req[r].inserts = 1 /\ req[r].updates = 1)

\* A free caller's article or title request succeeded and the stored counter
\* stands one above the count the request was given, while a premium caller's
\* count-limited request succeeded too.
C3_Witness ==
    \E r, s \in Reqs :
        /\ req[r].handler \in CountLimited /\ req[r].plan # "premium"
        /\ Succeeded(req[r]) /\ req[r].rowId # 0
        /\ usage[req[r].userId] = req[r].free_usage + 1
        /\ req[s].handler \in CountLimited /\ req[s].plan = "premium"
        /\ Succeeded(req[s])

\* The successful count-limited requests of user u.
Successes(u) ==
    {r \in Reqs : req[r].userId = u /\ req[r].handler \in CountLimited /\ Succeeded(req[r])}
\* The rows of user u that count against the quota.
CountedRows(u) ==
    {i \in 1..Len(creations) :
        creations[i].user_id = u /\ creations[i].type \in {"article", "blog-title"}}

\* C4: with requests served one after another and every delegated call
\* succeeding, a non-premium caller's count-limited request seen with usage
\* FreeLimit - 1 succeeds, writes one row and leaves the counter at FreeLimit;
\* every later one is refused with the limit message and adds no row; so from
\* usage 0 the caller gets at most FreeLimit successes, one per counted row.
C4_SequentialQuota ==
    /\ \A r \in Reqs :
        LET q == req[r] IN
        (q.pc = "done" /\ q.handler \in CountLimited /\ q.plan # "premium")
        => /\ q.free_usage = FreeLimit - 1
              => /\ Succeeded(q) /\ q.inserts = 1 /\ q.rowId \in 1..Len(creations)
                 /\ usage[q.userId] = FreeLimit
                 /\ \A s \in Reqs :
                        (s > r /\ req[s].userId = q.userId /\ Handled(req[s]))
                        => FailedWith(req[s], LimitMsg) /\ req[s].rowId = 0
           /\ q.free_usage >= FreeLimit
              => FailedWith(q, LimitMsg) /\ q.inserts = 0 /\ q.rowId = 0
           /\ q.free_usage < FreeLimit => Succeeded(q)
    /\ \A u \in Users :
        PlanOf[u] # "premium"
        => /\ Cardinality(Successes(u)) <= FreeLimit
           /\ Cardinality(CountedRows(u)) <= FreeLimit
           /\ NoneInFlight => /\ Cardinality(Successes(u)) = usage[u]
                              /\ Cardinality(CountedRows(u)) = usage[u]

\* A free caller starting at 0 has had FreeLimit successes, the last one seen
\* with usage FreeLimit - 1, and then a refusal.
C4_Witness ==
    \E u \in Users, r, s \in Reqs :
        /\ PlanOf[u] # "premium"
        /\ Cardinality(Successes(u)) = FreeLimit
        /\ Cardinality(CountedRows(u)) = FreeLimit
        /\ req[r].userId = u /\ req[r].free_usage = FreeLimit - 1 /\ Succeeded(req[r])
        /\ s > r /\ req[s].userId = u /\ FailedWith(req[s], LimitMsg)
        /\ usage[u] = FreeLimit

\* A well-formed envelope: {success: true, content} or {success: false, message}.
Envelope(e) ==
    \/ DOMAIN e = {"success", "content"} /\ e.success = TRUE
    \/ DOMAIN e = {"success", "message"} /\ e.success = FALSE

\* C5: a request gets no response while its handler is still running and
\* exactly one once the handler has settled, and that response is one of the
\* two envelopes; the handler settles by responding, whichever step failed.
C5_OneEnvelope ==
    \A r \in Reqs :
        LET q == req[r] IN
        /\ q.pc # "done" => q.responses = <<>>
        /\ q.pc = "done" => Len(q.responses) = 1 /\ Envelope(q.responses[1])

\* Requests have ended in failure at a late step (the insert, the counter
\* update) and been answered with the failure envelope.
C5_Witness ==
    \E r, s \in Reqs :
        /\ FailedWith(req[r], "metadata update failed")
        /\ FailedWith(req[s], "insert failed") /\ req[s].handler = "resumeReview"

\* C6: in a count-limited handler the completion call precedes the insert and
\* the committed insert precedes the counter update; when the insert fails
\* after a successful completion call, no counter update is issued and the
\* caller gets the failure envelope.
C6_CallInsertUpdate ==
    \A r \in Reqs :
        LET q == req[r] IN
        q.handler \in CountLimited
        => /\ q.inserts > 0 => q.calls = <<"completion">> /\ q.content \in Completions
           /\ q.updates > 0 => q.inserts = 1 /\ q.rowId \in 1..Len(creations)
           /\ (q.inserts > 0 /\ q.rowId = 0 /\ q.pc = "done")
              => /\ q.updates = 0
                 /\ FailedWith(q, "insert failed")

\* A free caller's completion call succeeded, the insert then failed, and the
\* stored counter still is the count the request was given.
C6_Witness ==
    \E r \in Reqs :
        /\ req[r].handler \in CountLimited /\ req[r].plan # "premium"
        /\ req[r].calls = <<"completion">> /\ req[r].inserts = 1
        /\ FailedWith(req[r], "insert failed")
        /\ usage[req[r].userId] = req[r].free_usage

\* C7: for a premium caller of resumeReview an upload of more than
\* 5 * 1024 * 1024 bytes is refused with the size-limit message before the
\* file is read and before any extraction, completion call or insert; an
\* upload of at most that size is not refused by this check and is read.
C7_ResumeSizeLimit ==
    \A r \in Reqs :
        LET q == req[r] IN
        (Handled(q) /\ q.handler = "resumeReview" /\ q.plan = "premium" /\ q.file.present)
        => /\ q.file.size > 5 * 1024 * 1024
              => /\ FailedWith(q, ResumeSizeMsg)
                 /\ ~q.fileRead /\ q.calls = <<>> /\ q.inserts = 0 /\ q.rowId = 0
           /\ q.file.size <= 5 * 1024 * 1024
              => /\ q.fileRead
                 /\ q.responses # <<Failure(ResumeSizeMsg)>>

\* A premium caller's resume one byte over the limit has been refused, and one
\* of exactly the limit has been reviewed.
C7_Witness ==
    \E r, s \in Reqs :
        /\ req[r].handler = "resumeReview" /\ req[s].handler = "resumeReview"
        /\ req[r].file.size = 5 * 1024 * 1024 + 1 /\ FailedWith(req[r], ResumeSizeMsg)
        /\ req[s].file.size = 5 * 1024 * 1024 /\ Succeeded(req[s])
        /\ req[s].calls = <<"pdf", "completion">>

\* C8: a successful generateImage request has persisted an image row whose
\* publish is the body's publish flag, and false when the flag is left out
\* or null.
C8_PublishDefault ==
    \A r \in Reqs :
        LET q == req[r] IN
        (q.handler = "generateImage" /\ Succeeded(q))
        => /\ q.rowId \in 1..Len(creations)
           /\ creations[q.rowId].type = "image"
           /\ creations[q.rowId].content = q.responses[1].content
           /\ q.body.publish = "true" => creations[q.rowId].publish = "true"
           /\ q.body.publish = "false" => creations[q.rowId].publish = "false"
           /\ q.body.publish = "undefined" => creations[q.rowId].publish = "false"
           /\ q.body.publish = "null" => creations[q.rowId].publish = "false"

\* One image request left publish out and its row says false; another set it
\* and its row says true.
C8_Witness ==
    \E r, s \in Reqs :
        /\ req[r].handler = "generateImage" /\ Succeeded(req[r])
        /\ req[r].body.publish = "undefined" /\ creations[req[r].rowId].publish = "false"
        /\ req[s].handler = "generateImage" /\ Succeeded(req[s])
        /\ req[s].body.publish = "true" /\ creations[req[s].rowId].publish = "true"

\* Two submissions of the same request by the same caller.
Identical(q1, q2) ==
    /\ q1.userId = q2.userId /\ q1.handler = q2.handler
    /\ q1.body = q2.body /\ q1.file = q2.file

\* C9: two successful submissions of an identical request have two distinct
\* rows in the table, alike in everything but the id, and for a non-premium
\* caller of a count-limited action each of the two has performed its own
\* counter update; every committed insert is a row of its own.
C9_NoDedup ==
    /\ \A r, s \in Reqs :
        (r # s /\ Identical(req[r], req[s]) /\ Succeeded(req[r]) /\ Succeeded(req[s]))
        => /\ req[r].rowId \in 1..Len(creations) /\ req[s].rowId \in 1..Len(creations)
           /\ req[r].rowId # req[s].rowId
           /\ [creations[req[r].rowId] EXCEPT !.id = 0] = [creations[req[s].rowId] EXCEPT !.id = 0]
           /\ (req[r].handler \in CountLimited /\ req[r].plan # "premium")
              => req[r].updates = 1 /\ req[s].updates = 1
    /\ Len(creations) = Cardinality({r \in Reqs : req[r].rowId # 0})
    /\ \A i \in 1..Len(creations) : creations[i].id = i

\* A free caller submitted the same article request twice, one after the
\* other; both succeeded, two rows are stored and the counter went up twice.
C9_Witness ==
    \E r, s \in Reqs :
        /\ r # s /\ Identical(req[r], req[s])
        /\ req[r].handler = "generateArticle" /\ req[r].plan # "premium"
        /\ Succeeded(req[r]) /\ Succeeded(req[s])
        /\ req[s].free_usage = req[r].free_usage + 1
        /\ usage[req[r].userId] = req[r].free_usage + 2
        /\ Len(creations) = 2

\* The delegated calls of each handler, in the order its code issues them.
Pipeline(h) ==
    CASE h \in {"generateArticle", "generateBlogTitle"} -> <<"completion">>
      [] h = "generateImage" -> <<"render", "upload">>
      [] h \in {"removeImageBackground", "removeImageObject"} -> <<"upload">>
      [] h = "resumeReview" -> <<"pdf", "completion">>

IsPrefix(a, b) == Len(a) <= Len(b) /\ \A i \in 1..Len(a) : a[i] = b[i]

\* The request was not turned away by a plan, quota or payload check.
PassedChecks(q) ==
    /\ Handled(q)
    /\ \A m \in {LimitMsg, PremiumMsg, NoImageMsg, ResumeSizeMsg, UndefinedSizeMsg} :
           q.responses # <<Failure(m)>>

\* C10 as stated: a request that passes its checks issues exactly one
\* delegated call before the insert, in each of the six handlers.
C10_AsStated ==
    \A r \in Reqs :
        /\ Len(req[r].calls) <= 1
        /\ req[r].inserts > 0 => Len(req[r].calls) = 1

\* C10 (amended): a request that passes its checks issues the delegated calls
\* of its handler in order, each once and none again, all of them before the
\* insert: one call in generateArticle, generateBlogTitle,
\* removeImageBackground and removeImageObject, two in generateImage (render,
\* then upload) and resumeReview (PDF extraction, then completion); it issues
\* at least one unless reading the uploaded resume fails, and a request that
\* fails a check issues none.
C10_DelegatedCalls ==
    \A r \in Reqs :
        LET q == req[r] IN
        Handled(q)
        => /\ IsPrefix(q.calls, Pipeline(q.handler))
           /\ q.inserts > 0 => q.calls = Pipeline(q.handler)
           /\ q.inserts <= 1
           /\ (PassedChecks(q) /\ ~FailedWith(q, "file read failed")) => Len(q.calls) >= 1
           /\ ~PassedChecks(q) => q.calls = <<>>

\* An image request reached its insert after render and upload, and a resume
\* review after extraction and completion.
C10_Witness ==
    \E r, s \in Reqs :
        /\ req[r].handler = "generateImage" /\ req[r].inserts = 1
        /\ req[r].calls = <<"render", "upload">>
        /\ req[s].handler = "resumeReview" /\ req[s].inserts = 1
        /\ req[s].calls = <<"pdf", "completion">>

\* The three handlers that take an upload.
FileHandlers == {"removeImageBackground", "removeImageObject", "resumeReview"}

\* C11: the plan check comes before any payload check: a non-premium caller of
\* removeImageBackground, removeImageObject or resumeReview whose upload is
\* missing or over the size limit is answered with the plan-required message,
\* never with the missing-file or size-limit message (nor with the error of
\* reading the size of an absent upload).
C11_PlanBeforePayload ==
    \A r \in Reqs :
        LET q == req[r] IN
        (Handled(q) /\ q.handler \in FileHandlers /\ q.plan # "premium"
                    /\ (~q.file.present \/ q.file.size > 5 * 1024 * 1024))
        => /\ q.responses = <<Failure(PremiumMsg)>>
           /\ \A m \in {NoImageMsg, ResumeSizeMsg, UndefinedSizeMsg} :
                  \A i \in 1..Len(q.responses) : q.responses[i] # Failure(m)

\* A free caller sent removeImageBackground no file and resumeReview an
\* oversized one, and was told both times that the plan is required.
C11_Witness ==
    \E r, s \in Reqs :
        /\ req[r].handler = "removeImageBackground" /\ ~req[r].file.present
        /\ req[s].handler = "resumeReview" /\ req[s].file.size > 5 * 1024 * 1024
        /\ \A t \in {r, s} : req[t].plan # "premium" /\ FailedWith(req[t], PremiumMsg)

\* C12: a premium caller's generateArticle or generateBlogTitle request is
\* never refused by the quota check, whatever the usage count it was given,
\* and goes on to the completion call.
C12_PremiumUnlimited ==
    \A r \in Reqs :
        LET q == req[r] IN
        (Handled(q) /\ q.handler \in CountLimited /\ q.plan = "premium")
        => /\ q.responses # <<Failure(LimitMsg)>>
           /\ Len(q.calls) >= 1 /\ q.calls[1] = "completion"

\* Premium callers given a count at and above the limit had their article and
\* title written.
C12_Witness ==
    \E r, s \in Reqs :
        /\ req[r].handler = "generateArticle" /\ req[s].handler = "generateBlogTitle"
        /\ \A t \in {r, s} : /\ req[t].plan = "premium"
                             /\ req[t].free_usage >= FreeLimit
                             /\ Succeeded(req[t])

\* C13: Creation rows are immutable and never deleted: in every step, whatever
\* the requests in flight, each row of the table stays where it is with the
\* same id, user_id, prompt, content, type and publish; the table only grows,
\* by at most one row a step.
C13_RowsImmutable ==
    [][/\ Len(creations') >= Len(creations)
       /\ Len(creations') <= Len(creations) + 1
       /\ \A i \in 1..Len(creations) : creations'[i] = creations[i]]_vars

\* Two rows of the same caller and type are stored, the first written before
\* the second request's insert.
C13_Witness ==
    /\ Len(creations) = 2
    /\ creations[1].user_id = creations[2].user_id
    /\ creations[1].type = creations[2].type
    /\ \A r \in Reqs : req[r].pc = "done"

\* C14: every side effect is keyed by the request's caller: a row carries the
\* user id of the request that inserted it, and a step changes a user's
\* stored counter only as the counter update of a request of that same user.
C14_KeyedByCaller ==
    /\ [](/\ \A r \in Reqs :
               req[r].rowId # 0
               => /\ req[r].rowId \in 1..Len(creations)
                  /\ creations[req[r].rowId].user_id = req[r].userId
          /\ \A i \in 1..Len(creations) :
               /\ creations[i].user_id \in Users
               /\ \E r \in Reqs : req[r].rowId = i /\ req[r].userId = creations[i].user_id)
    /\ [][\A u \in Users :
            usage'[u] # usage[u]
            => \E r \in Reqs :
                  /\ req[r].userId = u /\ req[r].pc = "awaitUpdate"
                  /\ req'[r].pc = "done"]_vars

\* Requests of two users interleaved: each has its own row, and the free
\* user's counter was updated while the other user's kept its value.
C14_Witness ==
    \E r, s \in Reqs :
        /\ req[r].userId # req[s].userId
        /\ req[r].handler \in CountLimited /\ req[r].plan # "premium" /\ Succeeded(req[r])
        /\ req[s].rowId # 0 /\ req[s].rowId < req[r].rowId
        /\ s > r
        /\ usage[req[r].userId] = req[r].free_usage + 1
        /\ usage[req[s].userId] # usage[req[r].userId]

\* C15: there is no per-caller guard: a count-limited request of a free caller
\* that was given a count below FreeLimit is never refused by the quota check,
\* whatever other requests of that caller are running and whatever count they
\* hold; so the caller's counted rows can pass FreeLimit, and they do so only
\* when a later request was given a count no greater than the count of an
\* earlier request that wrote its row.
C15_NoConcurrencyGuard ==
    /\ \A r \in Reqs :
        LET q == req[r] IN
        (Handled(q) /\ q.handler \in CountLimited /\ q.plan # "premium"
                    /\ q.free_usage < FreeLimit)
        => /\ q.responses # <<Failure(LimitMsg)>>
           /\ q.calls = <<"completion">>
    /\ \A u \in Users :
        (PlanOf[u] # "premium" /\ Cardinality(CountedRows(u)) > FreeLimit)
        => \E r, s \in Reqs :
              /\ r < s /\ req[r].userId = u /\ req[s].userId = u
              /\ req[r].rowId # 0 /\ req[s].rowId # 0
              /\ req[s].free_usage <= req[r].free_usage

\* Two requests of the free caller both read FreeLimit - 1 before either
\* updated the counter, both succeeded, and the caller now has more counted
\* rows than the cap while the counter stands at the cap.
C15_Witness ==
    \E r, s \in Reqs :
        /\ r # s /\ req[r].userId = req[s].userId /\ req[r].plan # "premium"
        /\ req[r].free_usage = FreeLimit - 1 /\ req[s].free_usage = FreeLimit - 1
        /\ Succeeded(req[r]) /\ Succeeded(req[s])
        /\ Cardinality(CountedRows(req[r].userId)) > FreeLimit
        /\ usage[req[r].userId] = FreeLimit

\* C16 as stated: in every reachable state the stored counter of a caller who
\* has always been non-premium and started at 0 equals the number of the
\* caller's article and blog-title rows.
C16_AsStated ==
    \A u \in Users :
        PlanOf[u] # "premium" => usage[u] = Cardinality(CountedRows(u))

\* The requests of u so far: none running, no counter update failed, and no
\* two that wrote a row were given the same count.
Settled(u) ==
    /\ \A r \in Reqs : req[r].userId = u => req[r].pc = "done"
    /\ \A r \in Reqs : req[r].userId = u => ~FailedWith(req[r], "metadata update failed")
    /\ \A r, s \in Reqs :
          (r # s /\ req[r].userId = u /\ req[s].userId = u
                 /\ req[r].rowId # 0 /\ req[s].rowId # 0)
          => req[r].free_usage # req[s].free_usage

\* C16 (amended): the stored counter of such a caller never exceeds the number
\* of the caller's article and blog-title rows; it equals that number whenever
\* none of the caller's requests is running, none had its counter update
\* fail, and no two that wrote a row were given the same count.
C16_CounterAtMostRows ==
    \A u \in Users :
        PlanOf[u] # "premium"
        => /\ usage[u] <= Cardinality(CountedRows(u))
           /\ Settled(u) => usage[u] = Cardinality(CountedRows(u))

\* The caller's requests came one after another and all is settled, counter
\* and rows both two above the start; and a state where a row has been written
\* whose counter update is still awaited is reached on the way.
C16_Witness ==
    \E r, s \in Reqs :
        /\ r < s /\ req[r].userId = RaceCaller /\ req[s].userId = RaceCaller
        /\ Succeeded(req[r]) /\ Succeeded(req[s])
        /\ req[s].free_usage = req[r].free_usage + 1
        /\ Settled(RaceCaller)
        /\ usage[RaceCaller] = req[r].free_usage + 2
        /\ Cardinality(CountedRows(RaceCaller)) = usage[RaceCaller]

\* C17: there is no rollback: in the step in which the counter update of a
\* count-limited request fails after its row was inserted, the table and the
\* stored counters stay as they are, the request's row is still in the table,
\* and the request is answered with the single failure envelope
\* {success: false, message}.
C17_NoRollback ==
    [][\A r \in Reqs :
          (req[r].pc = "awaitUpdate" /\ req'[r].pc = "done" /\ ~req'[r].responses[1].success)
          => /\ req[r].handler \in CountLimited /\ req[r].inserts = 1
             /\ creations' = creations
             /\ usage' = usage
             /\ req[r].rowId \in 1..Len(creations')
             /\ creations'[req[r].rowId] = InsertRow(req[r], req[r].rowId)
             /\ req'[r].rowId = req[r].rowId
             /\ Len(req'[r].responses) = 1
             /\ DOMAIN req'[r].responses[1] = {"success", "message"}]_vars

\* A count-limited request of a free caller failed at the counter update: its
\* row is in the table and the stored counter still has the value the request
\* was given.
C17_Witness ==
    \E r \in Reqs :
        LET q == req[r] IN
        /\ FailedWith(q, "metadata update failed")
        /\ q.plan # "premium"
        /\ q.rowId \in 1..Len(creations)
        /\ creations[q.rowId].user_id = q.userId
        /\ creations[q.rowId].type \in {"article", "blog-title"}
        /\ usage[q.userId] = q.free_usage

DelegatedFailures ==
    {"completion failed", "render failed", "upload failed", "pdf extraction failed"}

\* C18: a request issues its INSERT only after every delegated call of its
\* handler has been issued and has delivered its result; a request whose
\* delegated step failed has issued no INSERT and no counter update, has no
\* row, and is answered with the failure envelope; no request issues more
\* than one INSERT, and the table holds exactly the rows of the requests that
\* have one.
C18_RowAfterCalls ==
    /\ \A r \in Reqs :
        LET q == req[r] IN
        /\ q.inserts <= 1
        /\ q.rowId # 0 => q.inserts = 1
        /\ q.inserts > 0 => (q.calls = Pipeline(q.handler) /\ q.content # "none")
        /\ (q.pc = "done" /\ Len(q.calls) > 0 /\ q.content = "none")
           => \E m \in DelegatedFailures : q.responses = <<Failure(m)>>
        /\ \A m \in DelegatedFailures :
              FailedWith(q, m)
              => /\ q.inserts = 0 /\ q.rowId = 0 /\ q.updates = 0
                 /\ Len(q.calls) > 0
                 /\ IsPrefix(q.calls, Pipeline(q.handler))
    /\ Len(creations) = Cardinality({r \in Reqs : req[r].rowId # 0})

\* The second delegated call of a two-call handler failed after the first had
\* succeeded, and nothing was written; another request wrote its one row.
C18_Witness ==
    \E r, s \in Reqs :
        /\ req[r].handler \in {"generateImage", "resumeReview"}
        /\ Len(req[r].calls) = 2
        /\ \E m \in DelegatedFailures : FailedWith(req[r], m)
        /\ req[r].inserts = 0
        /\ Succeeded(req[s]) /\ req[s].inserts = 1
        /\ Len(creations) = 1

\* C19: a premium caller of removeImageBackground, removeImageObject or
\* resumeReview who sent no file is answered with the single failure envelope
\* {success: false, message}; the request issues no delegated call, reads no
\* file and issues no INSERT.
C19_NoFileNoWork ==
    \A r \in Reqs :
        LET q == req[r] IN
        (Handled(q) /\ q.handler \in FileHandlers /\ q.plan = "premium" /\ ~q.file.present)
        => /\ q.pc = "done"
           /\ Len(q.responses) = 1
           /\ DOMAIN q.responses[1] = {"success", "message"}
           /\ q.responses[1].success = FALSE
           /\ q.responses[1].message =
                 (IF q.handler = "resumeReview" THEN UndefinedSizeMsg ELSE NoImageMsg)
           /\ q.calls = <<>> /\ ~q.fileRead
           /\ q.inserts = 0 /\ q.rowId = 0 /\ q.updates = 0

\* A premium caller sent resumeReview without a file and one of the image
\* handlers without a file; both were answered with a failure, and the table
\* is empty.
C19_Witness ==
    \E r, s \in Reqs :
        /\ req[r].handler = "resumeReview" /\ req[s].handler \in FileHandlers \ {"resumeReview"}
        /\ req[r].plan = "premium" /\ req[s].plan = "premium"
        /\ ~req[r].file.present /\ ~req[s].file.present
        /\ FailedWith(req[r], UndefinedSizeMsg) /\ FailedWith(req[s], NoImageMsg)
        /\ creations = <<>>

CreationTypes == {"article", "blog-title", "image", "resume-review"}

\* C20: every row of the table has one of the four types, and the type of a
\* request's row is fixed by its handler: 'article' for generateArticle,
\* 'blog-title' for generateBlogTitle, 'image' for generateImage,
\* removeImageBackground and removeImageObject, 'resume-review' for
\* resumeReview.
C20_TypeByHandler ==
    /\ \A i \in 1..Len(creations) : creations[i].type \in CreationTypes
    /\ \A r \in Reqs :
        req[r].rowId # 0
        => creations[req[r].rowId].type =
              CASE req[r].handler = "generateArticle" -> "article"
                [] req[r].handler = "generateBlogTitle" -> "blog-title"
                [] req[r].handler \in {"generateImage", "removeImageBackground",
                                       "removeImageObject"} -> "image"
                [] req[r].handler = "resumeReview" -> "resume-review"

\* Two handlers other than generateArticle have written their rows, of two
\* different types.
C20_Witness ==
    \E r, s \in Reqs :
        /\ req[r].handler = "resumeReview" /\ req[r].rowId # 0
        /\ req[s].handler \in {"generateImage", "removeImageBackground", "removeImageObject"}
        /\ req[s].rowId # 0
        /\ creations[req[r].rowId].type = "resume-review"
        /\ creations[req[s].rowId].type = "image"

ChainPcs == {"idle", "cors", "json", "clerk", "root", "requireAuth", "router"}

\* C21: requireAuth stands before the /api/ai router and after the GET /
\* route: a request that has entered a handler has the identity of its
\* session, and that identity is the handler's caller; a request without a
\* session that is not GET / is ended by requireAuth with no handler entered,
\* no delegated call and no row; GET / is answered 'Server is LIVE...' with
\* or without a session and reaches no handler.
C21_AuthBeforeRouter ==
    /\ \A r \in Reqs :
        LET q == req[r] IN
        /\ (q.pc \notin ChainPcs /\ q.handler # "none")
           => /\ q.session \in Users /\ q.identity = q.session /\ q.userId = q.session
              /\ q.method = "POST" /\ q.path \in DOMAIN Routes
              /\ q.handler = Routes[q.path]
        /\ (q.session = "none" /\ q.pc \notin ChainPcs
                               /\ ~(q.method = "GET" /\ q.path = "/"))
           => /\ q.pc = "done" /\ q.handler = "none"
              /\ q.responses = <<[rejected |-> "requireAuth"]>>
              /\ q.calls = <<>> /\ q.inserts = 0 /\ q.updates = 0
        /\ (q.method = "GET" /\ q.path = "/" /\ q.pc \notin {"idle", "cors", "json", "clerk", "root"})
           => /\ q.pc = "done" /\ q.handler = "none"
              /\ q.responses = <<[body |-> LiveMsg]>>
    /\ \A i \in 1..Len(creations) : creations[i].user_id \in Users

\* GET / sent without a session was answered 'Server is LIVE...', and a POST
\* to a route sent with a session has run its handler to a stored row.
C21_Witness ==
    \E r, s \in Reqs :
        /\ req[r].method = "GET" /\ req[r].path = "/" /\ req[r].session = "none"
        /\ req[r].responses = <<[body |-> LiveMsg]>>
        /\ req[s].session \in Users /\ req[s].handler # "none"
        /\ req[s].pc = "done" /\ req[s].rowId # 0

\* The success response of request r is sent in this step.
SendsSuccess(r) ==
    /\ \A i \in 1..Len(req[r].responses) : ~req[r].responses[i].success
    /\ \E i \in 1..Len(req'[r].responses) : req'[r].responses[i].success

\* C22: the success response is the last step of a request: a request that
\* has been answered {success: true, content} is finished, its row is in the
\* table with that content, and, for a non-premium caller of a count-limited
\* action, its one counter update has been issued and has resolved; the step
\* that sends the response ends the request, follows the committed INSERT,
\* and for such a caller is the step in which the update resolves.
C22_SuccessLast ==
    /\ [](\A r \in Reqs :
            LET q == req[r] IN
            (\E i \in 1..Len(q.responses) : q.responses[i].success)
            => /\ q.pc = "done" /\ Len(q.responses) = 1
               /\ q.inserts = 1 /\ q.rowId \in 1..Len(creations)
               /\ creations[q.rowId].content = q.responses[1].content
               /\ creations[q.rowId].user_id = q.userId
               /\ (q.handler \in CountLimited /\ q.plan # "premium") => q.updates = 1
               /\ ~(q.handler \in CountLimited /\ q.plan # "premium") => q.updates = 0)
    /\ [][\A r \in Reqs :
            SendsSuccess(r)
            => /\ req'[r].pc = "done"
               /\ IF req[r].handler \in CountLimited /\ req[r].plan # "premium"
                  THEN /\ req[r].pc = "awaitUpdate"
                       /\ req[r].rowId \in 1..Len(creations)
                       /\ creations' = creations
                       /\ usage'[req[r].userId] = UpdatedUsage(req[r])
                  ELSE /\ req[r].pc = "awaitInsert"
                       /\ creations' = Append(creations, InsertRow(req[r], Len(creations) + 1))
                       /\ usage' = usage]_vars

\* A free caller's count-limited request and a premium caller's image request
\* were both answered with success; both rows hold the content sent.
C22_Witness ==
    \E r, s \in Reqs :
        /\ Succeeded(req[r]) /\ req[r].handler \in CountLimited /\ req[r].plan # "premium"
        /\ req[r].updates = 1
        /\ creations[req[r].rowId].content = req[r].responses[1].content
        /\ Succeeded(req[s]) /\ req[s].handler = "generateImage" /\ req[s].updates = 0
        /\ creations[req[s].rowId].content = req[s].responses[1].content

\* The count the race caller's counter stood at when its requests began: its
\* counted rows less those the requests have written.
StartCount(u) ==
    Cardinality(CountedRows(u)) - Cardinality({r \in Reqs : req[r].userId = u /\ req[r].rowId # 0})

\* C23: the counter update is an overwrite: the step in which a non-premium
\* count-limited request's update resolves sets the caller's stored counter
\* to the count that request was given plus 1, whatever the counter held
\* before the step (equal, higher or lower); so the stored counter is always
\* either its starting value or the given count plus 1 of a request that
\* succeeded, not the number of updates that resolved.
C23_Overwrite ==
    /\ [][\A r \in Reqs :
            (req[r].pc = "awaitUpdate" /\ Succeeded(req'[r]))
            => /\ usage'[req[r].userId] = req[r].free_usage + 1
               /\ req'[r].free_usage = req[r].free_usage]_vars
    /\ [](\A u \in Users :
            PlanOf[u] # "premium"
            => \/ usage[u] = StartCount(u)
               \/ \E r \in Reqs : /\ req[r].userId = u /\ Succeeded(req[r])
                                  /\ usage[u] = req[r].free_usage + 1)

\* An update was lost and the counter lowered: of two requests whose updates
\* resolved, the stored counter is what the one given the lower count wrote,
\* below what the other had written before.
C23_Witness ==
    \E r, s \in Reqs :
        /\ req[r].userId = req[s].userId /\ req[r].plan # "premium"
        /\ Succeeded(req[r]) /\ Succeeded(req[s])
        /\ req[r].free_usage < req[s].free_usage
        /\ usage[req[r].userId] = req[r].free_usage + 1
        /\ usage[req[r].userId] < req[s].free_usage + 1

\* C24: the four premium-only handlers leave every user's stored counter
\* unchanged: no step of a generateImage, removeImageBackground,
\* removeImageObject or resumeReview request changes any stored counter,
\* whoever the caller, whatever the payload and however the step ends, and
\* such a request never issues a counter update.
C24_PremiumOnlyFrame ==
    /\ [][\A r \in Reqs :
            (req'[r] # req[r] /\ req'[r].handler \in PremiumOnly) => usage' = usage]_vars
    /\ [](\A r \in Reqs :
            req[r].handler \in PremiumOnly
            => req[r].updates = 0 /\ req[r].pc # "awaitUpdate")

\* A premium caller's premium-only request succeeded and wrote its row, and a
\* free caller's was refused; neither issued a counter update.
C24_Witness ==
    \E r, s \in Reqs :
        /\ req[r].handler \in PremiumOnly /\ req[r].plan = "premium"
        /\ Succeeded(req[r]) /\ req[r].rowId # 0 /\ req[r].updates = 0
        /\ req[s].handler \in PremiumOnly /\ req[s].plan # "premium"
        /\ FailedWith(req[s], PremiumMsg) /\ req[s].updates = 0

====
